---- MODULE Spec2Model ----
(***************************************************************************)
(* qpextract (tools/qpextract.cc): the per-frame callback that walks the   *)
(* minimum-coding-block grid of a decoded picture, aggregates QP /         *)
(* prediction-mode / CTU-size distributions and prints one CSV row, and    *)
(* the ingestion loop of main() that reads the input, feeds the decoder    *)
(* and drains it.                                                          *)
(*                                                                         *)
(* The decoder (libde265) is external: every value it returns (the result  *)
(* of push / flush / decode, the pictures it delivers, the per-block       *)
(* values of a picture) is an input chosen with \E from a small set.       *)
(* Doubles are modelled as exact fractions [num, den]; den = 0 is the      *)
(* result of a division by zero (NaN or infinity).                         *)
(***************************************************************************)
EXTENDS Integers, Sequences, FiniteSets, TLC

\* ------------------------------------------------------------------ bounds
MaxCells == 2      \* grid cells of a picture (PicWidthInMinCbsY * PicHeightInMinCbsY)
MaxUnits == 2      \* length-prefixed units the input file is built from
MaxDrain == 1      \* decode steps of one drain pass that report more work
MaxFrames == 1     \* pictures the decoder delivers in one run

\* ------------------------------------------------------- program constants
BUFFER_SIZE == 40960
MIN_QP_VALUE == 0
MAX_QP_VALUE == 100
MAX_PRED_MODES == 3
MAX_CTU_VALUES == 4

QpModes == {"qpymode", "qpcbmode", "qpcrmode"}
Procmode == QpModes \cup {"predmode", "ctumode", "fullmode"}

\* de265_error values the loop distinguishes
DE265_OK == "DE265_OK"
DE265_ERROR_CHECKSUM_MISMATCH == "DE265_ERROR_CHECKSUM_MISMATCH"
DE265_ERROR_WAITING_FOR_INPUT_DATA == "DE265_ERROR_WAITING_FOR_INPUT_DATA"
De265Errors == {DE265_OK, DE265_ERROR_CHECKSUM_MISMATCH,
                DE265_ERROR_WAITING_FOR_INPUT_DATA}

\* ------------------------------------------------- values the decoder returns
\* log2CbSize of a grid cell; 0 marks a cell that is not a block origin
Log2Values(mode) ==
  IF mode = "ctumode" THEN {0, 2, 3, 4, 5, 6, 7}
  ELSE IF mode = "fullmode" THEN {0, 6}
  ELSE {0, 3, 6}
\* get_QPY / get_QPCb / get_QPCr
QpValues(mode) ==
  IF mode = "qpymode" THEN {-5, -1, 0, 30, 99, 100}
  ELSE IF mode \in {"qpcbmode", "qpcrmode"} THEN {-1, 30, 100}
  ELSE {-1, 30}
\* get_pred_mode
PredValues(mode) == IF mode = "fullmode" THEN {0, 5} ELSE {0, 1, 2, 3, 5}
\* sps.MinCbSizeY
MinCbSizes == {8}
\* what a read one element past the end of a 100-element array may yield
Garbage == {0, 7}

VARIABLES
  \* configuration (globals set by the option loop)
  nal_input, check_hash, procmode, minPrintedQP, maxPrintedQP,
  \* main(): position, input stream, locals of the loop
  pc, file, fpos, feof, pos, err, stop, drain, exitcode,
  \* history of what main() did
  pushes, nreads, nflush, anyErr, decErr, lastResult, nframes,
  \* the output sink: the lines written to fout
  out,
  \* the callback: picture being walked and locals of dump_image_*
  picW, picH, minCbSize, img_id, x0, y0, distro, distro_weighted, qp_max, qp_min,
  seen, stats, divzero

cfgvars == <<nal_input, check_hash, procmode, minPrintedQP, maxPrintedQP>>
mainvars == <<file, fpos, feof, pos, err, stop, drain, exitcode>>
histvars == <<pushes, nreads, nflush, anyErr, decErr, lastResult>>
cbvars == <<picW, picH, minCbSize, img_id, x0, y0, distro, distro_weighted,
            qp_max, qp_min, seen, stats, divzero>>
vars == <<cfgvars, mainvars, histvars, cbvars, pc, out, nframes>>

\* ---------------------------------------------------------------- helpers
\* 1 << log2CbSize
CbSizeOf(log2CbSize) == 2 ^ log2CbSize

\* CbSize * CbSize, the weight a block adds to the weighted distribution
CbArea_linear(log2CbSize) == CbSizeOf(log2CbSize)
CbArea(log2CbSize) == CbSizeOf(log2CbSize) * CbSizeOf(log2CbSize)

\* the zeroed arrays of the "init distro" loops
ZeroDistro(n) == [i \in 0..(n - 1) |-> 0]

DistroSize(mode) ==
  IF mode \in QpModes THEN MAX_QP_VALUE
  ELSE IF mode = "predmode" THEN MAX_PRED_MODES
  ELSE IF mode = "ctumode" THEN MAX_CTU_VALUES
  ELSE 0

\* get_qp_distro: qp < MIN_QP_VALUE || qp >= MAX_QP_VALUE rejects the block
QpInvalid(qp) == qp < MIN_QP_VALUE \/ qp >= MAX_QP_VALUE

\* get_qp_distro: the running maximum and minimum, -1 meaning "none yet"
QpMaxUpdate(qp, cur) == IF qp # -1 /\ (cur = -1 \/ qp > cur) THEN qp ELSE cur
QpMinUpdate(qp, cur) == IF qp # -1 /\ (cur = -1 \/ qp < cur) THEN qp ELSE cur

\* get_pred_distro: pred_mode < 0 || pred_mode > 2 rejects the block
PredInvalid(pred_mode) == pred_mode < 0 \/ pred_mode > 2

\* get_ctu_distro: only 8, 16, 32 and 64 are counted
CtuInvalid(CbSize) == CbSize # 8 /\ CbSize # 16 /\ CbSize # 32 /\ CbSize # 64

\* advance the raster walk (x0 inner, y0 outer)
NextX(x, w) == IF x + 1 < w THEN x + 1 ELSE 0
NextY(x, y, w) == IF x + 1 < w THEN y ELSE y + 1

\* --------------------------------------------------- get_qp_statistics
\* qp_distro[qp] as the loops "qp <= MAX_QP_VALUE" read it: the arrays have
\* MAX_QP_VALUE elements, so index MAX_QP_VALUE (and any index outside the
\* array) reads whatever memory follows: g
ReadDistro(d, g, qp) == IF qp \in DOMAIN d THEN d[qp] ELSE g

\* last index the summation loops of get_qp_statistics visit
StatLoopLast == MAX_QP_VALUE

\* the indices the loops visit whose element is not 0
Counted(d, g) == {qp \in MIN_QP_VALUE..StatLoopLast : ReadDistro(d, g, qp) # 0}

RECURSIVE QpSumLoop(_, _, _, _, _)
\* qp_sum += qp * qp_distro[qp], for qp = lo .. hi; S holds the indices of
\* lo .. hi whose element is not 0, the only ones that add to the sum
QpSumLoop(d, g, S, lo, hi) ==
  IF S = {} THEN 0
  ELSE IF lo = hi THEN lo * ReadDistro(d, g, lo)
  ELSE LET mid == (lo + hi) \div 2
       IN QpSumLoop(d, g, {qp \in S : qp <= mid}, lo, mid)
            + QpSumLoop(d, g, {qp \in S : qp > mid}, mid + 1, hi)

RECURSIVE QpNumLoop(_, _, _, _, _)
\* *qp_num += qp_distro[qp], for qp = lo .. hi, S as above
QpNumLoop(d, g, S, lo, hi) ==
  IF S = {} THEN 0
  ELSE IF lo = hi THEN ReadDistro(d, g, lo)
  ELSE LET mid == (lo + hi) \div 2
       IN QpNumLoop(d, g, {qp \in S : qp <= mid}, lo, mid)
            + QpNumLoop(d, g, {qp \in S : qp > mid}, mid + 1, hi)

\* (double)a / b
Div(a, b) == [num |-> a, den |-> b]
IsDivByZero(q) == q.den = 0

\* sqrt(qp_sumsquare / qp_num) with qp_sumsquare = sum of diff*diff*count,
\* diff = qp - qp_avg. Counts are non-negative, so the sum is 0 exactly when
\* every counted value equals the mean (qp * num = sum); with num = 0 the mean
\* is 0/0 and the result is NaN.
QpStddev(d, g, sum, num) ==
  IF num = 0 THEN "nan"
  ELSE IF \A qp \in Counted(d, g) : qp * num = sum
       THEN "zero"
       ELSE "positive"

get_qp_statistics(d, g) ==
  LET sum == QpSumLoop(d, g, Counted(d, g), MIN_QP_VALUE, StatLoopLast)
      num == QpNumLoop(d, g, Counted(d, g), MIN_QP_VALUE, StatLoopLast)
  IN [qp_num |-> num,
      qp_avg |-> Div(sum, num),
      qp_stddev |-> QpStddev(d, g, sum, num)]

\* ------------------------------------------------------------- CSV text
QpHeaderFixed ==
  <<"frame", "qp_num", "qp_min", "qp_max", "qp_avg", "qp_stddev",
    "qpw_num", "qpw_min", "qpw_max", "qpw_avg", "qpw_stddev">>
PredHeader ==
  <<"frame", "intra", "inter", "skip", "intra_ratio", "inter_ratio", "skip_ratio",
    "intraw", "interw", "skipw", "intraw_ratio", "interw_ratio", "skipw_ratio">>
CtuHeader ==
  <<"frame", "ctu8", "ctu16", "ctu32", "ctu64", "cut8_ratio", "ctu16_ratio",
    "ctu32_ratio", "ctu64_ratio", "ctu8w", "ctu16w", "ctu32w", "ctu64w",
    "cut8w_ratio", "ctu16w_ratio", "ctu32w_ratio", "ctu64w_ratio">>
FullHeader ==
  <<"frame", "xb", "yb", "size", "qpy", "qpcb", "qpcr", "pred_mode", "ctu_size">>

\* the fields lo..hi of a loop "for (qp = lo; qp <= hi; qp++)", f(qp) each
LoopFields(lo, hi, f(_)) ==
  IF hi < lo THEN <<>> ELSE [i \in 1..(hi - lo + 1) |-> f(lo + i - 1)]

QpName(qp) == ToString(qp)
QpNameW(qp) == ToString(qp) \o "w"

\* dump_csv_header: the fields of the header line of a mode
dump_csv_header(mode, lo, hi) ==
  IF mode \in QpModes
    THEN QpHeaderFixed \o LoopFields(lo, hi, QpName) \o LoopFields(lo, hi, QpNameW)
  ELSE IF mode = "predmode" THEN PredHeader
  ELSE IF mode = "ctumode" THEN CtuHeader
  ELSE FullHeader

\* the fields of a line of the output, the header line or a data row
HeaderLine(mode, lo, hi) == [kind |-> "header", fields |-> dump_csv_header(mode, lo, hi)]
RowLine_asheader(fields) == [kind |-> "header", fields |-> fields]
RowLine(fields) == [kind |-> "row", fields |-> fields]

\* --------------------------------------------------- the formatting buffer
\* char buffer[BUFSIZE] of dump_image_qp, dump_image_pred, dump_ctu_distro,
\* dump_full and main
BUFSIZE == 1024

\* the number of decimal digits of a non-negative int
Digits(n) ==
  IF n < 10 THEN 1 ELSE IF n < 100 THEN 2 ELSE IF n < 1000 THEN 3
  ELSE IF n < 10000 THEN 4 ELSE IF n < 100000 THEN 5
  ELSE IF n < 1000000 THEN 6 ELSE IF n < 10000000 THEN 7
  ELSE IF n < 100000000 THEN 8 ELSE IF n < 1000000000 THEN 9 ELSE 10

\* what snprintf returns for "%i"
IntLen(v) == IF v < 0 THEN 1 + Digits(0 - v) ELSE Digits(v)
\* what snprintf returns for "%i,"
FmtI(v) == IntLen(v) + 1

\* "%f" of a NaN is "nan" or "-nan", as the sign bit of 0.0 / 0 falls
NanLens == {3, 4}
\* what snprintf returns for "%f," of the quotient q (of non-negative ints):
\* the integer part, the point, six decimals, the comma; nan characters for
\* a division by zero
FmtF(q, nan) ==
  IF q.den = 0 THEN nan + 1 ELSE Digits(q.num \div q.den) + 8
\* the distance between the smallest and the largest of the values S
Span(S) ==
  IF S = {} THEN 0
  ELSE (CHOOSE hi \in S : \A x \in S : x <= hi) - (CHOOSE lo \in S : \A x \in S : lo <= x)
\* what snprintf can return for "%f," of a standard deviation of values that
\* span `span`: the values lie in 0..100, so a positive deviation has one or
\* two digits before the point, and one digit when the values span less than
\* 20, a deviation being at most half the span
StddevLens(class, nan, span) ==
  IF class = "zero" THEN {9}
  ELSE IF class = "nan" THEN {nan + 1}
  ELSE IF span < 20 THEN {9}
  ELSE {9, 10}

RECURSIVE SumSeq(_, _, _)
\* bi after "bi += snprintf(...)" for the calls lo..hi, whose return values
\* are lens[lo..hi]
SumSeq(lens, lo, hi) ==
  IF hi < lo THEN 0
  ELSE IF lo = hi THEN lens[lo]
  ELSE LET mid == (lo + hi) \div 2
       IN SumSeq(lens, lo, mid) + SumSeq(lens, mid + 1, hi)

\* bi at the end of dump_csv_header: the literal of the mode, then ",%i" and
\* ",%iw" for each printed qp
HeaderBi(mode, lo, hi) ==
  LET fixed == IF mode \in QpModes THEN QpHeaderFixed
               ELSE IF mode = "predmode" THEN PredHeader
               ELSE IF mode = "ctumode" THEN CtuHeader
               ELSE FullHeader
      literal == [i \in 1..Len(fixed) |-> Len(fixed[i]) + (IF i = 1 THEN 0 ELSE 1)]
      n == IF mode \in QpModes /\ lo <= hi THEN hi - lo + 1 ELSE 0
      names == [i \in 1..n |-> 1 + IntLen(lo + i - 1)]
      namesw == [i \in 1..n |-> 2 + IntLen(lo + i - 1)]
  IN SumSeq(literal, 1, Len(fixed)) + SumSeq(names, 1, n) + SumSeq(namesw, 1, n)

\* What fprintf(fout, buffer) writes after "buffer[bi - 1] = '\n'" on a row
\* formatted up to bi. snprintf keeps a terminating 0 inside the buffer while
\* bi < BUFSIZE. At bi = BUFSIZE the newline replaces that 0 and fprintf
\* reads past the buffer; beyond, the last fields were cut or written
\* outside the buffer and the newline is stored outside it.
RowTexts(bi) ==
  IF bi < BUFSIZE THEN {"line"}
  ELSE IF bi = BUFSIZE THEN {"line", "garbled"}
  ELSE {"cut", "garbled"}
\* the same after "buffer[*bi] = '\n'" of dump_csv_header, which needs the 0
\* of the zeroed buffer at bi + 1
HeaderTexts(bi) ==
  IF bi + 1 < BUFSIZE THEN {"line"}
  ELSE IF bi + 1 = BUFSIZE THEN {"line", "garbled"}
  ELSE {"cut", "garbled"}

\* fprintf(fout, buffer): the line, where formatting ended, what came out
Fprintf(line, bi, text) ==
  [kind |-> line.kind, fields |-> line.fields, bi |-> bi, text |-> text]

\* the header line as main writes it
HeaderOut(mode, lo, hi) ==
  UNION {{Fprintf(HeaderLine(mode, lo, hi), bi, t) : t \in HeaderTexts(bi)} :
           bi \in {HeaderBi(mode, lo, hi)}}
\* a data row of the given fields, formatted by calls returning lens
RowOut(fields, lens) ==
  UNION {{Fprintf(RowLine(fields), bi, t) : t \in RowTexts(bi)} :
           bi \in {SumSeq(l, 1, Len(l)) : l \in {lens}}}

\* ===================================================== the per-frame callback
\* dump_image: dispatch on procmode; the locals of dump_image_qp /
\* dump_image_pred / dump_ctu_distro / dump_full are set up and the "init
\* distro" loop of the aggregator zeroes both arrays. The picture the decoder
\* hands over has w * h grid cells, at most maxCells.
DumpImageBegin(maxCells) ==
  /\ pc = "cb_begin"
  /\ \E w \in 1..maxCells, h \in 1..2, m \in MinCbSizes :
       /\ w * h <= maxCells
       /\ picW' = w
       /\ picH' = h
       /\ minCbSize' = m
  /\ img_id' = nframes
  /\ nframes' = nframes + 1
  /\ x0' = 0
  /\ y0' = 0
  /\ distro' = ZeroDistro(DistroSize(procmode))
  /\ distro_weighted' = ZeroDistro(DistroSize(procmode))
  /\ qp_max' = -1
  /\ qp_min' = -1
  /\ seen' = <<>>
  /\ stats' = <<>>
  /\ pc' = "cb_walk"
  /\ UNCHANGED <<cfgvars, mainvars, histvars, out, divzero>>

\* what every walk step leaves alone
WalkFrame ==
  /\ x0' = NextX(x0, picW)
  /\ y0' = NextY(x0, y0, picW)
  /\ pc' = "cb_walk"
  /\ UNCHANGED <<cfgvars, mainvars, histvars, nframes, picW, picH, minCbSize,
                 img_id, stats, divzero>>

Cell(l, v) == [x0 |-> x0, y0 |-> y0, log2CbSize |-> l, value |-> v]

\* get_qp_distro, one iteration of the inner loop (lines 180-210)
WalkQp(log2s, qps) ==
  /\ pc = "cb_walk" /\ y0 < picH /\ procmode \in QpModes
  /\ \E log2CbSize \in log2s :
       IF log2CbSize = 0
       THEN /\ seen' = Append(seen, Cell(0, "none"))
            /\ UNCHANGED <<distro, distro_weighted, qp_max, qp_min>>
       ELSE \E qp \in qps :
            /\ seen' = Append(seen, Cell(log2CbSize, qp))
            /\ qp_max' = QpMaxUpdate(qp, qp_max)
            /\ qp_min' = QpMinUpdate(qp, qp_min)
            /\ IF QpInvalid(qp)
               THEN UNCHANGED <<distro, distro_weighted>>
               ELSE /\ distro' = [distro EXCEPT ![qp] = @ + 1]
                    /\ distro_weighted' =
                         [distro_weighted EXCEPT ![qp] = @ + CbArea(log2CbSize)]
  /\ WalkFrame
  /\ UNCHANGED out

\* get_pred_distro, one iteration of the inner loop (lines 234-251)
WalkPred(log2s, preds) ==
  /\ pc = "cb_walk" /\ y0 < picH /\ procmode = "predmode"
  /\ \E log2CbSize \in log2s :
       IF log2CbSize = 0
       THEN /\ seen' = Append(seen, Cell(0, "none"))
            /\ UNCHANGED <<distro, distro_weighted>>
       ELSE \E pred_mode \in preds :
            /\ seen' = Append(seen, Cell(log2CbSize, pred_mode))
            /\ IF PredInvalid(pred_mode)
               THEN UNCHANGED <<distro, distro_weighted>>
               ELSE /\ distro' = [distro EXCEPT ![pred_mode] = @ + 1]
                    /\ distro_weighted' =
                         [distro_weighted EXCEPT ![pred_mode] = @ + CbArea(log2CbSize)]
  /\ WalkFrame
  /\ UNCHANGED <<out, qp_max, qp_min>>

\* get_ctu_distro, one iteration of the inner loop (lines 275-291)
WalkCtu(log2s) ==
  /\ pc = "cb_walk" /\ y0 < picH /\ procmode = "ctumode"
  /\ \E log2CbSize \in log2s :
       IF log2CbSize = 0
       THEN /\ seen' = Append(seen, Cell(0, "none"))
            /\ UNCHANGED <<distro, distro_weighted>>
       ELSE /\ seen' = Append(seen, Cell(log2CbSize, CbSizeOf(log2CbSize)))
            /\ IF CtuInvalid(CbSizeOf(log2CbSize))
               THEN UNCHANGED <<distro, distro_weighted>>
               ELSE /\ distro' = [distro EXCEPT ![log2CbSize - 3] = @ + 1]
                    /\ distro_weighted' =
                         [distro_weighted EXCEPT ![log2CbSize - 3] = @ + CbArea(log2CbSize)]
  /\ WalkFrame
  /\ UNCHANGED <<out, qp_max, qp_min>>

\* dump_full, one iteration of the inner loop (lines 499-527): one row per
\* origin block, nothing aggregated
WalkFull(log2s, qps, preds) ==
  /\ pc = "cb_walk" /\ y0 < picH /\ procmode = "fullmode"
  /\ \E log2CbSize \in log2s :
       IF log2CbSize = 0
       THEN /\ seen' = Append(seen, Cell(0, "none"))
            /\ UNCHANGED out
       ELSE \E qpy \in qps, qpcb \in qps, qpcr \in qps, pred_mode \in preds :
            /\ seen' = Append(seen, Cell(log2CbSize, <<qpy, qpcb, qpcr, pred_mode>>))
            /\ LET fields ==
                     <<img_id, x0 * minCbSize, y0 * minCbSize, CbSizeOf(log2CbSize),
                       qpy, qpcb, qpcr, pred_mode, CbSizeOf(log2CbSize)>>
                   lens == [i \in 1..Len(fields) |-> FmtI(fields[i])]
               IN \E line \in RowOut(fields, lens) : out' = Append(out, line)
  /\ WalkFrame
  /\ UNCHANGED <<distro, distro_weighted, qp_max, qp_min>>

\* the rest of every dump_* function leaves the walk state alone
FinishFrame ==
  /\ pc = "cb_walk" /\ y0 = picH
  /\ pc' = "cb_return"
  /\ UNCHANGED <<cfgvars, mainvars, histvars, nframes, picW, picH, minCbSize,
                 img_id, x0, y0, distro, distro_weighted, qp_max, qp_min, seen>>

\* dump_image_qp after get_qp_distro (lines 360-397): statistics of both
\* distributions, then the row. gu and gw are what qp_distro[100] and
\* qp_distro_weighted[100] read.
FinishQp ==
  /\ procmode \in QpModes
  /\ FinishFrame
  /\ \E gu \in Garbage : \E s \in {get_qp_statistics(distro, gu)} :
     \E gw \in Garbage : \E sw \in {get_qp_statistics(distro_weighted, gw)} :
     \E nan \in NanLens :
     \E dev \in StddevLens(s.qp_stddev, nan, Span(Counted(distro, gu))),
        devw \in StddevLens(sw.qp_stddev, nan, Span(Counted(distro_weighted, gw))) :
       LET bucket(qp) == ReadDistro(distro, gu, qp)
           bucketw(qp) == ReadDistro(distro_weighted, gw, qp)
           len(qp) == FmtI(bucket(qp))
           lenw(qp) == FmtI(bucketw(qp))
           fields ==
             <<img_id, s.qp_num, qp_min, qp_max, s.qp_avg, s.qp_stddev,
               sw.qp_num, qp_min, qp_max, sw.qp_avg, sw.qp_stddev>>
             \o LoopFields(minPrintedQP, maxPrintedQP, bucket)
             \o LoopFields(minPrintedQP, maxPrintedQP, bucketw)
           lens ==
             <<FmtI(img_id), FmtI(s.qp_num), FmtI(qp_min), FmtI(qp_max),
               FmtF(s.qp_avg, nan), dev,
               FmtI(sw.qp_num), FmtI(qp_min), FmtI(qp_max),
               FmtF(sw.qp_avg, nan), devw>>
             \o LoopFields(minPrintedQP, maxPrintedQP, len)
             \o LoopFields(minPrintedQP, maxPrintedQP, lenw)
       IN /\ stats' = [u |-> s, w |-> sw,
                       read |-> (MIN_QP_VALUE..StatLoopLast)
                                  \cup (minPrintedQP..maxPrintedQP)]
          /\ divzero' = (divzero \/ IsDivByZero(s.qp_avg) \/ IsDivByZero(sw.qp_avg))
          /\ \E line \in RowOut(fields, lens) : out' = Append(out, line)

RECURSIVE SumDistro(_, _)
\* sum += distro[i] for i = from .. size-1
SumDistro(d, from) ==
  IF from \notin DOMAIN d THEN 0 ELSE d[from] + SumDistro(d, from + 1)

\* the counts / ratios / weighted counts / weighted ratios of dump_image_pred
\* (lines 413-438) and dump_ctu_distro (lines 458-483)
RatioFields(d, dw, n) ==
  LET sum == SumDistro(d, 0)
      sumw == SumDistro(dw, 0)
      count(i) == d[i]
      ratio(i) == Div(d[i], sum)
      countw(i) == dw[i]
      ratiow(i) == Div(dw[i], sumw)
  IN LoopFields(0, n - 1, count) \o LoopFields(0, n - 1, ratio)
       \o LoopFields(0, n - 1, countw) \o LoopFields(0, n - 1, ratiow)

\* what the snprintf calls of those fields return ("%i," and "%f,")
RatioLens(d, dw, n, nan) ==
  LET sum == SumDistro(d, 0)
      sumw == SumDistro(dw, 0)
      count(i) == FmtI(d[i])
      ratio(i) == FmtF(Div(d[i], sum), nan)
      countw(i) == FmtI(dw[i])
      ratiow(i) == FmtF(Div(dw[i], sumw), nan)
  IN LoopFields(0, n - 1, count) \o LoopFields(0, n - 1, ratio)
       \o LoopFields(0, n - 1, countw) \o LoopFields(0, n - 1, ratiow)

\* dump_image_pred after get_pred_distro, dump_ctu_distro after get_ctu_distro
FinishRatio ==
  /\ procmode \in {"predmode", "ctumode"}
  /\ FinishFrame
  /\ LET sum == SumDistro(distro, 0)
         sumw == SumDistro(distro_weighted, 0)
     IN /\ stats' = [sum |-> sum, sumw |-> sumw]
        /\ divzero' = (divzero \/ sum = 0 \/ sumw = 0)
        /\ \E nan \in NanLens :
           \E line \in RowOut(
                <<img_id>> \o RatioFields(distro, distro_weighted, DistroSize(procmode)),
                <<FmtI(img_id)>>
                  \o RatioLens(distro, distro_weighted, DistroSize(procmode), nan)) :
             out' = Append(out, line)

\* dump_full after the last grid cell
FinishFull ==
  /\ procmode = "fullmode"
  /\ FinishFrame
  /\ UNCHANGED <<stats, divzero, out>>

\* ============================================================ the input file
\* A file is the byte encoding of a list of length-prefixed units (4-byte
\* big-endian length, then that many payload bytes), cut to `size` bytes or
\* followed by filler up to `size`.
UnitLengths == {0, 16}
\* a unit whose length needs two bytes of the header
LongUnit == <<257>>
\* bytes missing at the end of a truncated file
Cuts == {0, 1}
RawSizes == {0, 1, BUFFER_SIZE, BUFFER_SIZE + 1}
\* what the bytes of len[] hold when fread() filled fewer than 4 of them
StaleLengths == {0, 16}

Min(a, b) == IF a < b THEN a ELSE b

HeaderBytes(L) ==
  <<(L \div 16777216) % 256, (L \div 65536) % 256, (L \div 256) % 256, L % 256>>

RECURSIVE EncSize(_)
EncSize(units) ==
  IF units = <<>> THEN 0 ELSE 4 + Head(units) + EncSize(Tail(units))

RECURSIVE ByteIn(_, _)
\* the byte at offset p of the encoding of units (filler after it)
ByteIn(units, p) ==
  IF units = <<>> THEN p % 256
  ELSE IF p < 4 THEN HeaderBytes(Head(units))[p + 1]
  ELSE IF p < 4 + Head(units) THEN (p - 4) % 256
  ELSE ByteIn(Tail(units), p - 4 - Head(units))

ByteAt(f, p) == ByteIn(f.units, p)

UnitSeqs == UNION {[1..k -> UnitLengths] : k \in 0..MaxUnits}
Files ==
  UNION {{[units |-> u, size |-> EncSize(u) - c] :
            c \in {k \in Cuts : k <= EncSize(u)}} : u \in UnitSeqs}
  \cup {[units |-> LongUnit, size |-> EncSize(LongUnit)]}
  \cup {[units |-> <<>>, size |-> n] : n \in RawSizes}

\* fread(buf, 1, count, fin) from position p: bytes delivered
FreadCount(f, p, count) == Min(count, f.size - p)
\* ... and whether it sets the end-of-file indicator
FreadHitsEof(f, p, count) == FreadCount(f, p, count) < count

\* (len[0] << 24) + (len[1] << 16) + (len[2] << 8) + len[3]
NalLength(b) == b[1] * 16777216 + b[2] * 65536 + b[3] * 256 + b[4]

\* values push / flush return (any error stands for all of them)
PushResults == {DE265_OK, DE265_ERROR_WAITING_FOR_INPUT_DATA}

\* ================================================================== main()
\* print ranges (minPrintedQP, maxPrintedQP) of ingestion runs
MainPrintRanges == {<<30, 31>>}

\* every file is run in prediction mode; the other modes, which differ only
\* in what the callback prints, are run on two files
FewFiles == {[units |-> <<16>>, size |-> 20], [units |-> <<>>, size |-> BUFFER_SIZE + 1]}
InputFiles(mode) == IF mode = "predmode" THEN Files ELSE FewFiles

Init ==
  /\ nal_input \in BOOLEAN
  /\ check_hash \in BOOLEAN
  /\ procmode \in Procmode
  /\ \E r \in MainPrintRanges : minPrintedQP = r[1] /\ maxPrintedQP = r[2]
  /\ file \in InputFiles(procmode)
  /\ pc = "start"
  /\ fpos = 0 /\ feof = FALSE
  /\ pos = 0 /\ err = DE265_OK /\ stop = FALSE /\ drain = 0 /\ exitcode = -1
  /\ pushes = <<>> /\ nreads = 0 /\ nflush = 0
  /\ anyErr = FALSE /\ decErr = FALSE /\ lastResult = "none"
  /\ nframes = 0
  /\ out = <<>>
  /\ picW = 0 /\ picH = 0 /\ minCbSize = 0 /\ img_id = 0 /\ x0 = 0 /\ y0 = 0
  /\ distro = <<>> /\ distro_weighted = <<>> /\ qp_max = -1 /\ qp_min = -1
  /\ seen = <<>> /\ stats = <<>> /\ divzero = FALSE

\* lines 729-750: fopen of the input or of the output file fails, exit(10)
OpenFail ==
  /\ pc = "start"
  /\ pc' = "done"
  /\ exitcode' = 10
  /\ UNCHANGED <<cfgvars, file, fpos, feof, pos, err, stop, drain, histvars,
                 cbvars, out, nframes>>

\* lines 752-761: the header line goes to fout, then the loop is entered
DumpHeader ==
  /\ pc = "start"
  /\ \E line \in HeaderOut(procmode, minPrintedQP, maxPrintedQP) :
       out' = Append(out, line)
  /\ pc' = "read"
  /\ UNCHANGED <<cfgvars, mainvars, histvars, cbvars, nframes>>

\* what one engine call adds to the history
Called(e) ==
  /\ lastResult' = e
  /\ anyErr' = (anyErr \/ e # DE265_OK)

\* lines 764-773: length-prefixed mode. The count of the header read is not
\* looked at; bytes of len[] that fread() did not fill keep what they held.
ReadPushNal ==
  /\ pc = "read" /\ nal_input
  /\ LET n1 == FreadCount(file, fpos, 4)
         p1 == fpos + n1
         eof1 == feof \/ FreadHitsEof(file, fpos, 4)
     IN \E stale \in StaleLengths, e \in PushResults :
          LET length == IF n1 = 4
                        THEN NalLength([i \in 1..4 |-> ByteAt(file, fpos + i - 1)])
                        ELSE stale
              n == FreadCount(file, p1, length)
          IN /\ (n1 = 4 => stale = 0)
             /\ fpos' = p1 + n
             /\ feof' = (eof1 \/ FreadHitsEof(file, p1, length))
             /\ pushes' = Append(pushes, [n |-> n, pos |-> pos, src |-> p1])
             /\ err' = e
             /\ Called(e)
             /\ pos' = pos + n
  /\ nreads' = nreads + 2
  /\ pc' = "eofcheck"
  /\ UNCHANGED <<cfgvars, file, stop, drain, exitcode, nflush, decErr,
                 cbvars, out, nframes>>

\* lines 775-788: raw mode. Nothing is pushed when the read returned 0 bytes;
\* a failed push leaves the loop at once.
ReadPushRaw ==
  /\ pc = "read" /\ ~nal_input
  /\ LET n == FreadCount(file, fpos, BUFFER_SIZE)
     IN /\ fpos' = fpos + n
        /\ feof' = (feof \/ FreadHitsEof(file, fpos, BUFFER_SIZE))
        /\ IF n # 0
           THEN \E e \in PushResults :
                  /\ pushes' = Append(pushes, [n |-> n, pos |-> pos, src |-> fpos])
                  /\ err' = e
                  /\ Called(e)
                  /\ IF e # DE265_OK
                     THEN pc' = "exit" /\ pos' = pos
                     ELSE pc' = "eofcheck" /\ pos' = pos + n
           ELSE /\ pc' = "eofcheck"
                /\ UNCHANGED <<pushes, err, lastResult, anyErr, pos>>
  /\ nreads' = nreads + 1
  /\ UNCHANGED <<cfgvars, file, stop, drain, exitcode, nflush, decErr,
                 cbvars, out, nframes>>

\* line 792: stop after the flush
StopAfterFlush_forgotten == FALSE
StopAfterFlush == TRUE

\* lines 790-796: at end of file the decoder is flushed and this pass is the
\* last one
EofCheck ==
  /\ pc = "eofcheck"
  /\ IF feof
     THEN \E e \in PushResults :
            /\ err' = e
            /\ Called(e)
            /\ nflush' = nflush + 1
            /\ stop' = (stop \/ StopAfterFlush)
     ELSE UNCHANGED <<err, lastResult, anyErr, nflush, stop>>
  /\ drain' = 0
  /\ pc' = "decode"
  /\ UNCHANGED <<cfgvars, file, fpos, feof, pos, exitcode, pushes, nreads,
                 decErr, cbvars, out, nframes>>

\* line 801, entering de265_decode: the decoder may hand a picture to the
\* registered callback (dump_image) before it returns
DecodeCall ==
  /\ pc = "decode"
  /\ \/ nframes < MaxFrames /\ pc' = "cb_begin"
     \/ pc' = "cb_return"
  /\ UNCHANGED <<cfgvars, mainvars, pushes, nreads, nflush, anyErr, decErr,
                 lastResult, cbvars, out, nframes>>

\* line 803: what a failed decode step does to stop
StopAfterDecodeError_always(e, checking, stopped) == TRUE
StopAfterDecodeError(e, checking, stopped) ==
  stopped \/ (checking /\ e = DE265_ERROR_CHECKSUM_MISMATCH)

\* "while (!stop)": where the loop goes when the drain pass is over
AfterDrain(stopped) == IF stopped THEN "exit" ELSE "read"

\* lines 801-818, de265_decode returning e and more
DecodeReturn ==
  /\ pc = "cb_return"
  /\ \E e \in De265Errors, more \in BOOLEAN :
       /\ err' = e
       /\ Called(e)
       /\ decErr' = (decErr \/ e # DE265_OK)
       /\ IF e # DE265_OK
          THEN /\ stop' = StopAfterDecodeError(e, check_hash, stop)
               /\ pc' = AfterDrain(stop')
               /\ drain' = drain
          ELSE IF more /\ drain < MaxDrain
          THEN /\ pc' = "decode"
               /\ drain' = drain + 1
               /\ stop' = stop
          ELSE /\ pc' = AfterDrain(stop)
               /\ drain' = drain
               /\ stop' = stop
  /\ UNCHANGED <<cfgvars, file, fpos, feof, pos, exitcode, pushes, nreads, nflush,
                 cbvars, out, nframes>>

\* line 827
ExitCode_zero(e) == 0
ExitCode(e) == IF e = DE265_OK THEN 0 ELSE 10

\* lines 821-827
Exit ==
  /\ pc = "exit"
  /\ exitcode' = ExitCode(err)
  /\ pc' = "done"
  /\ UNCHANGED <<cfgvars, file, fpos, feof, pos, err, stop, drain, histvars,
                 cbvars, out, nframes>>

\* pictures of an ingestion run: one grid cell, one value per query
MainLog2 == {6}
MainQp == {90}
MainPred == {0}

Next ==
  \/ OpenFail
  \/ DumpHeader
  \/ ReadPushNal
  \/ ReadPushRaw
  \/ EofCheck
  \/ DecodeCall
  \/ DecodeReturn
  \/ Exit
  \/ DumpImageBegin(1)
  \/ WalkQp(MainLog2, MainQp)
  \/ WalkPred(MainLog2, MainPred)
  \/ WalkCtu(MainLog2)
  \/ WalkFull(MainLog2, MainQp, MainPred)
  \/ FinishQp
  \/ FinishRatio
  \/ FinishFull

Spec == Init /\ [][Next]_vars

\* the loop is sequential code: whatever step is enabled is taken
FairSpec == Spec /\ WF_vars(Next)

\* ======================================= the callback on arbitrary pictures
\* The callback alone, on every picture of up to MaxCells grid cells whose
\* blocks carry the values of Log2Values / QpValues / PredValues. The state
\* it starts from is the one main() is in when the decoder calls dump_image:
\* the header is out, the loop is inside a decode step.
\* The print range matters to the QP modes only: all of PrintRanges in QP-Y
\* mode, one range in the others.
PrintRanges == {<<0, 63>>, <<30, 31>>, <<1, 0>>}
PrintRangesOf(mode) == IF mode = "qpymode" THEN PrintRanges ELSE {<<30, 31>>}

InitImage ==
  /\ nal_input = FALSE
  /\ check_hash = FALSE
  /\ procmode \in Procmode
  /\ \E r \in PrintRangesOf(procmode) : minPrintedQP = r[1] /\ maxPrintedQP = r[2]
  /\ file = [units |-> <<>>, size |-> 1]
  /\ pc = "cb_begin"
  /\ fpos = 1 /\ feof = TRUE
  /\ pos = 1 /\ err = DE265_OK /\ stop = TRUE /\ drain = 0 /\ exitcode = -1
  /\ pushes = <<[n |-> 1, pos |-> 0, src |-> 0]>> /\ nreads = 1 /\ nflush = 1
  /\ anyErr = FALSE /\ decErr = FALSE /\ lastResult = DE265_OK
  /\ nframes = 0
  /\ \E line \in HeaderOut(procmode, minPrintedQP, maxPrintedQP) : out = <<line>>
  /\ picW = 0 /\ picH = 0 /\ minCbSize = 0 /\ img_id = 0 /\ x0 = 0 /\ y0 = 0
  /\ distro = <<>> /\ distro_weighted = <<>> /\ qp_max = -1 /\ qp_min = -1
  /\ seen = <<>> /\ stats = <<>> /\ divzero = FALSE

NextImage ==
  \/ DumpImageBegin(MaxCells)
  \/ WalkQp(Log2Values(procmode), QpValues(procmode))
  \/ WalkPred(Log2Values(procmode), PredValues(procmode))
  \/ WalkCtu(Log2Values(procmode))
  \/ WalkFull(Log2Values(procmode), QpValues(procmode), PredValues(procmode))
  \/ FinishQp
  \/ FinishRatio
  \/ FinishFull

SpecImage == InitImage /\ [][NextImage]_vars

\* ========================================== formatting the row of a picture
\* dump_image_qp / dump_image_pred / dump_ctu_distro from the point where the
\* aggregator has returned, on the histograms of pictures too large to walk
\* cell by cell: every bucket holds the same number of 8x8 blocks. 1296 per
\* bucket is a 3840x2160 picture whose 129600 blocks spread evenly over the
\* 100 QP values.
FillCounts == {0, 1, 1296}
\* the print ranges -q / -Q can set: strtol accepts any int
RowPrintRanges == {<<0, 63>>, <<0, 99>>, <<1, 0>>, <<0, 199>>}
RowPrintRangesOf(mode) == IF mode \in QpModes THEN RowPrintRanges ELSE {<<0, 63>>}
\* frame numbers img->get_ID() returns
FrameIds == {0, 250}

\* the histograms after the aggregator has walked such a picture
FilledDistro(mode, c) == [i \in 0..(DistroSize(mode) - 1) |-> c]
FilledDistroWeighted(mode, c) ==
  [i \in 0..(DistroSize(mode) - 1) |->
     c * (IF mode = "ctumode" THEN CbArea(i + 3) ELSE CbArea(3))]

InitRow ==
  /\ nal_input = FALSE
  /\ check_hash = FALSE
  /\ procmode \in QpModes \cup {"predmode", "ctumode"}
  /\ \E r \in RowPrintRangesOf(procmode) : minPrintedQP = r[1] /\ maxPrintedQP = r[2]
  /\ file = [units |-> <<>>, size |-> 1]
  /\ pc = "cb_walk"
  /\ fpos = 1 /\ feof = TRUE
  /\ pos = 1 /\ err = DE265_OK /\ stop = TRUE /\ drain = 0 /\ exitcode = -1
  /\ pushes = <<[n |-> 1, pos |-> 0, src |-> 0]>> /\ nreads = 1 /\ nflush = 1
  /\ anyErr = FALSE /\ decErr = FALSE /\ lastResult = DE265_OK
  /\ img_id \in FrameIds
  /\ nframes = img_id + 1
  /\ \E line \in HeaderOut(procmode, minPrintedQP, maxPrintedQP) : out = <<line>>
  /\ \E c \in FillCounts :
       /\ distro = FilledDistro(procmode, c)
       /\ distro_weighted = FilledDistroWeighted(procmode, c)
       /\ picW = (IF c = 0 THEN 1 ELSE c * DistroSize(procmode))
       /\ qp_min = (IF c = 0 \/ procmode \notin QpModes THEN -1 ELSE MIN_QP_VALUE)
       /\ qp_max = (IF c = 0 \/ procmode \notin QpModes THEN -1 ELSE MAX_QP_VALUE - 1)
  /\ picH = 1 /\ minCbSize = 8 /\ x0 = 0 /\ y0 = 1
  /\ seen = <<>> /\ stats = <<>> /\ divzero = FALSE

NextRow ==
  \/ FinishQp
  \/ FinishRatio

SpecRow == InitRow /\ [][NextRow]_vars

\* ================================================================= properties
\* ------------------------------------------------ what the decoder returned
\* The walk of the current picture is over (every grid cell was visited).
WalkDone == (pc = "cb_walk" /\ y0 = picH) \/ pc = "cb_return"
\* dump_image_* has returned
CallbackDone == pc = "cb_return"

\* the grid cells that are block origins
Origins == {i \in 1..Len(seen) : seen[i].log2CbSize # 0}

\* the metric value of an origin cell lies in the domain of the active mode
InDomain(i) ==
  IF procmode \in QpModes THEN seen[i].value \in 0..99
  ELSE IF procmode = "predmode" THEN seen[i].value \in {0, 1, 2}
  ELSE IF procmode = "ctumode" THEN seen[i].value \in {8, 16, 32, 64}
  ELSE FALSE

\* the histogram bucket of a valid block
BucketOf(i) ==
  IF procmode = "ctumode" THEN seen[i].log2CbSize - 3 ELSE seen[i].value

ValidBlocks == {i \in Origins : InDomain(i)}

RECURSIVE AreaSum(_)
\* the sum of size * size over the blocks in S
AreaSum(S) ==
  IF S = {} THEN 0
  ELSE LET i == CHOOSE x \in S : TRUE
           size == 2 ^ seen[i].log2CbSize
       IN size * size + AreaSum(S \ {i})

RECURSIVE Total(_, _)
\* the sum of the elements of an array, over the indices in S
Total(d, S) ==
  LET nonzero == {i \in S : d[i] # 0}
  IN IF nonzero = {} THEN 0
     ELSE LET i == CHOOSE x \in nonzero : TRUE
          IN d[i] + Total(d, nonzero \ {i})

AggregatingModes == QpModes \cup {"predmode", "ctumode"}

\* C1: after get_qp_distro / get_pred_distro / get_ctu_distro, every bucket v
\* of the unweighted histogram holds the number of origin cells whose metric
\* value is v and in the domain, every bucket of the weighted histogram the
\* sum of size*size over those blocks; so the histograms sum to the number of
\* valid blocks and to their total area, and so do the ratio denominators of
\* the prediction-mode and CTU-size rows. Out-of-domain blocks add nothing.
C1_HistogramsCountValidBlocks ==
  (procmode \in AggregatingModes /\ WalkDone) =>
    /\ \A v \in DOMAIN distro :
         LET blocks == {i \in ValidBlocks : BucketOf(i) = v}
         IN /\ distro[v] = Cardinality(blocks)
            /\ distro_weighted[v] = AreaSum(blocks)
    /\ Total(distro, DOMAIN distro) = Cardinality(ValidBlocks)
    /\ Total(distro_weighted, DOMAIN distro_weighted) = AreaSum(ValidBlocks)
    /\ (CallbackDone /\ procmode \in {"predmode", "ctumode"}) =>
         /\ stats.sum = Cardinality(ValidBlocks)
         /\ stats.sumw = AreaSum(ValidBlocks)

\* C1 witness: a prediction-mode picture with a block of predictionMode 5 and
\* a valid block has been aggregated and printed
C1_Witness ==
  /\ procmode = "predmode" /\ CallbackDone
  /\ \E i \in Origins : seen[i].value = 5
  /\ \E i \in ValidBlocks : seen[i].log2CbSize = 6
  /\ stats.sum = 1 /\ stats.sumw = 4096

\* the buckets of the unweighted histogram that are not empty
NonEmptyBuckets == {v \in DOMAIN distro : distro[v] # 0}
SmallestBucket ==
  IF NonEmptyBuckets = {} THEN -1
  ELSE CHOOSE v \in NonEmptyBuckets : \A u \in NonEmptyBuckets : v <= u
LargestBucket ==
  IF NonEmptyBuckets = {} THEN -1
  ELSE CHOOSE v \in NonEmptyBuckets : \A u \in NonEmptyBuckets : v >= u

\* C8: in the QP modes qp_min and qp_max are the smallest and the largest
\* histogram bucket with a nonzero count, or -1 when no block is valid; a
\* block whose QP is outside [0,100) changes neither.
C8_MinMaxOfValidValues ==
  (procmode \in QpModes /\ WalkDone) =>
    /\ qp_min = SmallestBucket
    /\ qp_max = LargestBucket

\* every block of the picture is out of the domain (or the picture has none)
NoValidBlock == ValidBlocks = {}

\* C9: for a picture without a valid block no division by a zero count or a
\* zero total is executed, and the row is still written.
C9_ZeroTotalGuarded ==
  (procmode \in AggregatingModes /\ CallbackDone /\ NoValidBlock) =>
    /\ ~divzero
    /\ Len(out) = 2 /\ out[2].kind = "row"

\* the mean is exactly v
MeanIs(q, v) == q.den # 0 /\ q.num = v * q.den

\* C10: when the histogram get_qp_distro produced has one nonzero bucket, at
\* v with count c, get_qp_statistics returns count c, mean v and stddev 0, for
\* the unweighted and for the weighted distribution (whose count is the block
\* area at v); the row carries qp_min = qp_max = v.
C10_SingleBucketStatistics ==
  (procmode \in QpModes /\ CallbackDone /\ Cardinality(NonEmptyBuckets) = 1) =>
    LET v == CHOOSE b \in NonEmptyBuckets : TRUE
    IN /\ stats.u.qp_num = distro[v]
       /\ MeanIs(stats.u.qp_avg, v)
       /\ stats.u.qp_stddev = "zero"
       /\ stats.w.qp_num = distro_weighted[v]
       /\ MeanIs(stats.w.qp_avg, v)
       /\ stats.w.qp_stddev = "zero"

\* ------------------------------------------------------ the ingestion loop
\* main() got past opening its files
Running == pc # "start" /\ ~(pc = "done" /\ out = <<>>)
\* a step that calls de265_decode
DecodeCalled == pc = "decode" /\ pc' # "decode"
\* a step in which de265_decode returns
DecodeReturned == pc = "cb_return" /\ pc' # "cb_return"
\* nothing is read, pushed or flushed and no decode step is started
NoMoreIO == /\ nreads' = nreads /\ pushes' = pushes /\ nflush' = nflush
            /\ ~DecodeCalled

LoopOver == pc \in {"exit", "done"}
FailedDecodeStep ==
  (DecodeReturned /\ err' # DE265_OK) =>
     pc' = IF stop \/ (check_hash /\ err' = DE265_ERROR_CHECKSUM_MISMATCH)
           THEN "exit" ELSE "read"
OverStaysOver == LoopOver => (NoMoreIO /\ LoopOver')
ReadFollows == (pc = "read") => (nreads' > nreads)
HeaderLines == {i \in 1..Len(out) : out[i].kind = "header"}
\* what the header of a mode starts with, and how many fields it has
ExpectedSecondField(mode) ==
  IF mode \in QpModes THEN "qp_num"
  ELSE IF mode = "predmode" THEN "intra"
  ELSE IF mode = "ctumode" THEN "ctu8"
  ELSE "xb"
PrintedBuckets == IF maxPrintedQP < minPrintedQP THEN 0 ELSE maxPrintedQP - minPrintedQP + 1
ExpectedFieldCount(mode) ==
  IF mode \in QpModes THEN 11 + 2 * PrintedBuckets
  ELSE IF mode = "predmode" THEN 13
  ELSE IF mode = "ctumode" THEN 17
  ELSE 9

\* C4: in every run that opened its files, whatever the mode and the number
\* of pictures delivered, the output holds exactly one header line, it is the
\* first line and it is the header of the active mode; the callback only
\* adds data rows.
C4_HeaderOnceAndFirst ==
  Running =>
    /\ HeaderLines = {1}
    /\ out[1].fields[1] = "frame"
    /\ out[1].fields[2] = ExpectedSecondField(procmode)
    /\ Len(out[1].fields) = ExpectedFieldCount(procmode)

\* C4 witness: a run has ended after a picture was delivered and printed
C4_Witness ==
  /\ pc = "done" /\ nframes = 1 /\ Len(out) = 2 /\ out[2].kind = "row"
  /\ procmode = "ctumode"

\* C5: the decoder is flushed at most once and only after the end of the input
\* was seen; a run that does not end on a failed engine call has flushed
\* exactly once; after the flush nothing is read or pushed, the drain pass
\* that follows is the last one, and the loop terminates.
NothingReadAfterFlush ==
  (nflush = 1) =>
     (nreads' = nreads /\ pushes' = pushes /\ nflush' = nflush /\ pc' # "read")
C5_FlushOnceThenTerminate ==
  /\ [](nflush <= 1 /\ (nflush = 1 => (feof /\ stop)))
  /\ []((pc = "done" /\ Running /\ err = DE265_OK) => nflush = 1)
  /\ [][NothingReadAfterFlush]_vars
  /\ <>(pc = "done")

\* C5 witness: raw mode, a file of exactly one chunk: the second read returns
\* 0 bytes at end of file, nothing is pushed for it, the decoder is flushed
\* once and the run has ended
C5_Witness ==
  /\ pc = "done" /\ ~nal_input /\ file.size = BUFFER_SIZE
  /\ nreads = 2 /\ Len(pushes) = 1 /\ nflush = 1

\* the input is k complete units and nothing else
CompleteUnits == file.size = EncSize(file.units)
RECURSIVE PayloadStart(_, _)
\* the file offset of the payload of unit i
PayloadStart(units, i) ==
  IF i = 1 THEN 4 ELSE 4 + Head(units) + PayloadStart(Tail(units), i - 1)

\* C6: in length-prefixed mode, on an input of k complete units, a run that
\* reaches the end of the input has made exactly k pushes, the i-th of the
\* L_i payload bytes of unit i, and the offset counter has advanced by the
\* sum of the L_i.
C6_OnePushPerUnit ==
  (nal_input /\ CompleteUnits /\ pc = "done" /\ nflush = 1) =>
    /\ Len(pushes) = Len(file.units)
    /\ \A i \in 1..Len(file.units) :
         /\ pushes[i].n = file.units[i]
         /\ pushes[i].src = PayloadStart(file.units, i)
    /\ pos = EncSize(file.units) - 4 * Len(file.units)

RECURSIVE BytesBefore(_, _)
\* the bytes pushed by the pushes before the i-th
BytesBefore(ps, i) == IF i = 1 THEN 0 ELSE ps[i - 1].n + BytesBefore(ps, i - 1)

\* C7: every push carries the number of bytes pushed before it as its offset,
\* and that offset is greater than the offset of the push before it.
C7_OffsetsStrictlyIncrease ==
  \A i \in 1..Len(pushes) :
    /\ pushes[i].pos = BytesBefore(pushes, i)
    /\ i > 1 => pushes[i].pos > pushes[i - 1].pos

\* --------------------------------------------------------------- data rows
\* the data rows of the picture the callback was last given, in output order
IsFrameRow(line) == line.kind = "row" /\ line.fields[1] = img_id
FrameRows == SelectSeq(out, IsFrameRow)
\* the origin blocks of that picture, in the order the walk met them
IsOrigin(cell) == cell.log2CbSize # 0
OriginSeq == SelectSeq(seen, IsOrigin)
\* a line came out whole: one line, ended by the newline that replaced the
\* last delimiter
WholeLine(line) == line.text = "line"
\* the bucket fields of a QP row are the buckets minPrintedQP..maxPrintedQP
\* of the unweighted histogram, then of the weighted one
BucketsInOrder(row) ==
  \A k \in 1..PrintedBuckets :
    (minPrintedQP + k - 1) \in DOMAIN distro =>
      /\ row.fields[11 + k] = distro[minPrintedQP + k - 1]
      /\ row.fields[11 + PrintedBuckets + k] = distro_weighted[minPrintedQP + k - 1]
\* the rows of full mode are the origin blocks in raster order
OneRowPerOrigin ==
  /\ Len(FrameRows) = Len(OriginSeq)
  /\ \A i \in 1..Len(FrameRows) :
       /\ FrameRows[i].fields[2] = OriginSeq[i].x0 * minCbSize
       /\ FrameRows[i].fields[3] = OriginSeq[i].y0 * minCbSize
  /\ \A i, j \in 1..Len(OriginSeq) :
       i < j => \/ OriginSeq[i].y0 < OriginSeq[j].y0
                \/ /\ OriginSeq[i].y0 = OriginSeq[j].y0
                   /\ OriginSeq[i].x0 < OriginSeq[j].x0

\* C11: in every mode and for every print range, every data row is one line
\* ended by a newline with no delimiter before it and has as many fields as
\* the header of the mode (QP modes 11 + 2 * printed buckets, unweighted
\* buckets in ascending order then weighted; prediction mode 13; CTU size 17;
\* full mode 9, one row per origin block in raster order).
C11_RowsMatchHeader ==
  Running =>
    /\ \A i \in 2..Len(out) :
         /\ out[i].kind = "row"
         /\ WholeLine(out[i])
         /\ WholeLine(out[1])
         /\ Len(out[i].fields) = ExpectedFieldCount(procmode)
         /\ Len(out[i].fields) = Len(out[1].fields)
    /\ (procmode \in QpModes /\ CallbackDone) => BucketsInOrder(out[Len(out)])
    /\ (procmode = "fullmode") => OneRowPerOrigin

\* ------------------------------------------------------ histogram indices
\* the indices of the 100 buckets of a QP histogram
QpBuckets == MIN_QP_VALUE..(MAX_QP_VALUE - 1)

\* C12: every read or write of a QP histogram uses an index in [0,100): the
\* aggregator writes only the buckets of values it accepts, the summation
\* loops of get_qp_statistics and the print loops of dump_image_qp read only
\* buckets, whatever the print range, so the reported counts are the sums of
\* the 100 buckets.
C12_HistogramIndicesInRange ==
  (procmode \in QpModes /\ CallbackDone) =>
    /\ DOMAIN distro = QpBuckets /\ DOMAIN distro_weighted = QpBuckets
    /\ \A qp \in QpValues(procmode) : ~QpInvalid(qp) => qp \in QpBuckets
    /\ stats.read \subseteq QpBuckets
    /\ stats.u.qp_num = Total(distro, QpBuckets)
    /\ stats.w.qp_num = Total(distro_weighted, QpBuckets)

\* ------------------------------------------------------- write position
\* the print range lies within the buckets
RangeWithinBuckets == minPrintedQP \in QpBuckets /\ maxPrintedQP \in QpBuckets

\* C13: while the header or a row is formatted, the write position bi (the
\* sum of the formatted field lengths, which only grows) stays below the
\* 1024 bytes of the buffer, for every picture and every print range within
\* [0,99]; so BUFSIZE - bi stays positive and the newline is stored inside
\* the buffer.
C13_WritePositionBelowCapacity ==
  RangeWithinBuckets =>
    \A i \in 1..Len(out) :
      /\ out[i].bi < BUFSIZE
      /\ BUFSIZE - out[i].bi > 0
      /\ (IF out[i].kind = "header" THEN out[i].bi ELSE out[i].bi - 1) \in 0..(BUFSIZE - 1)
====
